---- MODULE Spec2Model ----
(***************************************************************************)
(* A model of main.py of sfu-course-parse: the time constraints            *)
(* (TimeConstraints), the filters fu / fc / fd / ft / ftime that main      *)
(* composes for one department, and the seat renderer seating_to_str.      *)
(*                                                                         *)
(* A Python str is a sequence of one-character strings.  None is written   *)
(* as the empty sequence wherever the code only tests the value for        *)
(* truth (`if x.schedule`, `if s.startTime`, `if not day`, `if extra`).    *)
(* A call that may raise returns [ok, val, err]: ok = FALSE stands for the *)
(* exception err leaving the call.                                         *)
(***************************************************************************)
EXTENDS Integers, Sequences, FiniteSets, TLC

VARIABLES pc, args, dept, data, cur, applied, inp, out

vars == <<pc, args, dept, data, cur, applied, inp, out>>

None == <<>>

Ok(v) == [ok |-> TRUE, val |-> v, err |-> "none"]

Raise(e) == [ok |-> FALSE, val |-> None, err |-> e]

\* the rest of a function body after a call (src/main.py, any statement
\* after a call that may raise): run with the value the call returned,
\* skipped when the call raised
Then(r, rest(_)) == IF r.ok THEN rest(r.val) ELSE r

(***************************************************************************)
(* Python str and int primitives used by the parser.                       *)
(***************************************************************************)
Digits == {"0", "1", "2", "3", "4", "5", "6", "7", "8", "9"}

Whitespace == {" ", "\n"}

DigitVal(ch) ==
  CASE ch = "0" -> 0 [] ch = "1" -> 1 [] ch = "2" -> 2 [] ch = "3" -> 3
    [] ch = "4" -> 4 [] ch = "5" -> 5 [] ch = "6" -> 6 [] ch = "7" -> 7
    [] ch = "8" -> 8 [] ch = "9" -> 9

\* s[lo:] of Python, lo counted from 0
From(s, lo) == SubSeq(s, lo + 1, Len(s))

\* s[lo:hi] of Python: never raises, a short string gives a short slice
Slice(s, lo, hi) == SubSeq(s, lo + 1, IF hi < Len(s) THEN hi ELSE Len(s))

RECURSIVE lstrip(_)
lstrip(s) ==
  IF s # <<>> /\ Head(s) \in Whitespace THEN lstrip(Tail(s)) ELSE s

RECURSIVE rstrip(_)
rstrip(s) ==
  IF s # <<>> /\ s[Len(s)] \in Whitespace
  THEN rstrip(SubSeq(s, 1, Len(s) - 1))
  ELSE s

\* str.strip()
strip(s) == rstrip(lstrip(s))

\* str.split(sep) for a one-character sep: always at least one part
RECURSIVE split(_, _)
split(s, sep) ==
  IF \A i \in 1..Len(s) : s[i] # sep
  THEN <<s>>
  ELSE LET k == CHOOSE i \in 1..Len(s) :
                  s[i] = sep /\ \A j \in 1..(i - 1) : s[j] # sep
       IN  <<SubSeq(s, 1, k - 1)>> \o split(SubSeq(s, k + 1, Len(s)), sep)

RECURSIVE DecimalValue(_)
DecimalValue(ds) ==
  IF ds = <<>> THEN 0
  ELSE 10 * DecimalValue(SubSeq(ds, 1, Len(ds) - 1)) + DigitVal(ds[Len(ds)])

\* int(t): surrounding whitespace and one leading sign are accepted, then
\* one or more decimal digits; anything else raises ValueError
Signed(u) == u # <<>> /\ u[1] \in {"+", "-"}

IntOfDigits(negative, ds) ==
  IF ds = <<>> \/ \E i \in 1..Len(ds) : ds[i] \notin Digits
  THEN Raise("ValueError")
  ELSE Ok(IF negative THEN 0 - DecimalValue(ds) ELSE DecimalValue(ds))

IntOfStripped(u) ==
  IF Signed(u) THEN IntOfDigits(u[1] = "-", Tail(u)) ELSE IntOfDigits(FALSE, u)

int(t) == IntOfStripped(strip(t))

\* x in s for strings: x is a contiguous substring of s
contains(s, x) ==
  \E i \in 0..(Len(s) - Len(x)) : SubSeq(s, i + 1, i + Len(x)) = x

(***************************************************************************)
(* class D: the weekday codes.                                             *)
(***************************************************************************)
D == { <<"M", "o">>, <<"W", "e">>, <<"F", "r">>, <<"T", "u">>, <<"T", "h">> }

\* D(code): lookup of an Enum member by value
D_of(code) == IF code \in D THEN Ok(code) ELSE Raise("ValueError")

(***************************************************************************)
(* class TimeConstraints                                                   *)
(***************************************************************************)
Constraint(pos, day, start, end) ==
  [pos |-> pos, day |-> day, start |-> start, end |-> end]

\* 60 * int(s[0]) + int(s[1]) for the parts s of a split on ":"
MinutesOfParts(s) ==
  Then(int(s[1]), LAMBDA h :
    IF Len(s) < 2 THEN Raise("IndexError")
    ELSE Then(int(s[2]), LAMBDA m : Ok(60 * h + m)))

time_to_minutes(time_str) == MinutesOfParts(split(time_str, ":"))

\* start and end from times = s[3:].split("-"), then the constraint
ConstraintOfTimes(pos, day, times) ==
  Then(time_to_minutes(times[1]), LAMBDA start :
    IF Len(times) < 2 THEN Raise("IndexError")
    ELSE Then(time_to_minutes(times[2]), LAMBDA end :
           Ok(Constraint(pos, day, start, end))))

constraint_from_str(s) ==
  IF s = <<>> THEN Raise("IndexError")
  ELSE Then(D_of(Slice(s, 1, 3)), LAMBDA day :
         ConstraintOfTimes(s[1] = "+", day, split(From(s, 3), "-")))

\* the loop of __init__ with the parse wrapped in try / except: pass, as
\* parse_to does for the fetched records
RECURSIVE read_schedule_skip(_, _)
read_schedule_skip(lines, constraints) ==
  IF lines = <<>> THEN Ok(constraints)
  ELSE IF strip(Head(lines)) = <<>>
            \/ ~constraint_from_str(strip(Head(lines))).ok
  THEN read_schedule_skip(Tail(lines), constraints)
  ELSE read_schedule_skip(Tail(lines),
         Append(constraints, constraint_from_str(strip(Head(lines))).val))

\* the loop of __init__ over the lines of the rules file: a line is
\* stripped, a blank one skipped, and an exception of constraint_from_str
\* leaves the loop and the constructor
RECURSIVE read_schedule(_, _)
read_schedule(lines, constraints) ==
  IF lines = <<>> THEN Ok(constraints)
  ELSE IF strip(Head(lines)) = <<>>
  THEN read_schedule(Tail(lines), constraints)
  ELSE Then(constraint_from_str(strip(Head(lines))), LAMBDA c :
         read_schedule(Tail(lines), Append(constraints, c)))

\* TimeConstraints(schedule_file, extra): schedule_file is given by the
\* lines of the file it names (None: no file), extra is a str or None
TimeConstraints_init(schedule_file, extra) ==
  Then(IF schedule_file # None THEN read_schedule(schedule_file, <<>>)
       ELSE Ok(<<>>),
       LAMBDA constraints :
         IF extra # None
         THEN Then(constraint_from_str(extra), LAMBDA c :
                Ok(Append(constraints, c)))
         ELSE Ok(constraints))

\* the overlap test with <= and >=: touching windows conflict
is_not_constrained_closed(days, start, end, constraint) ==
  IF contains(days, constraint.day)
  THEN LET time_conflict == start <= constraint.end /\ end >= constraint.start
       IN  constraint.pos = time_conflict
  ELSE TRUE

is_not_constrained(days, start, end, constraint) ==
  IF contains(days, constraint.day)
  THEN LET time_conflict == start < constraint.end /\ end > constraint.start
       IN  constraint.pos = time_conflict
  ELSE TRUE

\* any(...) in place of all(...)
RECURSIVE satisfies_any(_, _, _, _)
satisfies_any(constraints, days, start, end) ==
  IF constraints = <<>> THEN FALSE
  ELSE IF is_not_constrained(days, start, end, Head(constraints)) THEN TRUE
  ELSE satisfies_any(Tail(constraints), days, start, end)

\* all(...) over the constraints in list order, stopping at the first False
RECURSIVE satisfies_constraints(_, _, _, _)
satisfies_constraints(constraints, days, start, end) ==
  IF constraints = <<>> THEN TRUE
  ELSE IF ~is_not_constrained(days, start, end, Head(constraints)) THEN FALSE
  ELSE satisfies_constraints(Tail(constraints), days, start, end)

(***************************************************************************)
(* Outline and Schedule: the fields the filters read.                      *)
(***************************************************************************)
Schedule(campus, days, startTime, endTime) ==
  [campus |-> campus, days |-> days, startTime |-> startTime,
   endTime |-> endTime]

\* Outline.__init__ stores None for a missing or empty courseSchedule, so a
\* stored schedule is None or a non-empty list
Outline(number, schedule) == [number |-> number, schedule |-> schedule]

(***************************************************************************)
(* The filters of __main__.  Each takes the list it filters; campus, day   *)
(* and the command-line rules, which the code reads from the enclosing     *)
(* scope, are parameters here.                                             *)
(***************************************************************************)
fu(d) == Ok(SelectSeq(d, LAMBDA x : x.schedule # None))

\* x.schedule[0] raises TypeError when x.schedule is None
fc(d, campus) ==
  IF \E i \in 1..Len(d) : d[i].schedule = None THEN Raise("TypeError")
  ELSE IF campus = "any"
  THEN Ok(SelectSeq(d, LAMBDA x : x.schedule[1].campus \in {"Burnaby", "Surrey"}))
  ELSE Ok(SelectSeq(d, LAMBDA x : x.schedule[1].campus = campus))

cmpt_taken ==
  {"105W", "120", "125", "210", "225", "276", "307", "310", "354", "361",
   "383", "471"}

psyc_taken == {"100", "102"}

\* ft whose pass-through branch returns the fetched list of the enclosing
\* scope and not its argument
ft_fetched(d, dpt) ==
  IF dpt = "cmpt" THEN Ok(SelectSeq(d, LAMBDA x : x.number \notin cmpt_taken))
  ELSE IF dpt = "psyc"
  THEN Ok(SelectSeq(d, LAMBDA x : x.number \notin psyc_taken))
  ELSE Ok(data)

ft(d, dpt) ==
  IF dpt = "cmpt" THEN Ok(SelectSeq(d, LAMBDA x : x.number \notin cmpt_taken))
  ELSE IF dpt = "psyc"
  THEN Ok(SelectSeq(d, LAMBDA x : x.number \notin psyc_taken))
  ELSE Ok(d)

\* fd whose pass-through branch returns the fetched list of the enclosing
\* scope and not its argument
fd_fetched(d, day) ==
  IF day = None THEN Ok(data)
  ELSE IF \E i \in 1..Len(d) : d[i].schedule = None THEN Raise("TypeError")
  ELSE Ok(SelectSeq(d, LAMBDA x :
            \E k \in 1..Len(x.schedule) : contains(x.schedule[k].days, day)))

\* iterating x.schedule raises TypeError when it is None
fd(d, day) ==
  IF day = None THEN Ok(d)
  ELSE IF \E i \in 1..Len(d) : d[i].schedule = None THEN Raise("TypeError")
  ELSE Ok(SelectSeq(d, LAMBDA x :
            \E k \in 1..Len(x.schedule) : contains(x.schedule[k].days, day)))

t2m(s) == MinutesOfParts(split(s, ":"))

\* possible() with `return True` inside the loop: only the first meeting
\* is looked at
possible_from_first(schedule, constraints) ==
  IF schedule = <<>> THEN Ok(TRUE)
  ELSE IF Head(schedule).startTime # None
  THEN Then(t2m(Head(schedule).startTime), LAMBDA start :
         Then(t2m(Head(schedule).endTime), LAMBDA end :
           Ok(satisfies_constraints(constraints, Head(schedule).days,
                                    start, end))))
  ELSE Ok(TRUE)

\* the for loop of possible() over the meetings not yet visited
RECURSIVE possible_from(_, _)
possible_from(schedule, constraints) ==
  IF schedule = <<>> THEN Ok(TRUE)
  ELSE IF Head(schedule).startTime # None
  THEN Then(t2m(Head(schedule).startTime), LAMBDA start :
         Then(t2m(Head(schedule).endTime), LAMBDA end :
           IF ~satisfies_constraints(constraints, Head(schedule).days,
                                     start, end)
           THEN Ok(FALSE)
           ELSE possible_from(Tail(schedule), constraints)))
  ELSE possible_from(Tail(schedule), constraints)

possible(course, constraints) ==
  IF course.schedule = None THEN Raise("AssertionError")
  ELSE possible_from(course.schedule, constraints)

\* [x for x in data if possible(x, constraints)]
RECURSIVE ftime_keep(_, _)
ftime_keep(d, constraints) ==
  IF d = <<>> THEN Ok(<<>>)
  ELSE Then(possible(Head(d), constraints), LAMBDA keep :
         Then(ftime_keep(Tail(d), constraints), LAMBDA kept :
           Ok(IF keep THEN <<Head(d)>> \o kept ELSE kept)))

ftime(d, schedule_file, extra) ==
  Then(TimeConstraints_init(schedule_file, extra), LAMBDA constraints :
    ftime_keep(d, constraints))

(***************************************************************************)
(* seating_to_str(i, m, w).  i < 0.9 * m compares an int with a double;    *)
(* for the seat counts of a course it agrees with 10 * i < 9 * m.  The     *)
(* result is the text and the colour escape that wraps it.                 *)
(***************************************************************************)
\* the waitlist threshold tested with <=
seating_to_str_le(i, m, w) ==
  IF w # 0
  THEN IF 10 * i < 9 * m
       THEN [colour |-> "32", text |-> <<i, "(+", w, ")/", m>>]
       ELSE IF w <= 20
       THEN [colour |-> "33", text |-> <<i, "(+", w, ")/", m>>]
       ELSE [colour |-> "31", text |-> <<i, "(+", w, ")/", m>>]
  ELSE [colour |-> "32", text |-> <<i, "/", m>>]

seating_to_str(i, m, w) ==
  IF w # 0
  THEN IF 10 * i < 9 * m
       THEN [colour |-> "32", text |-> <<i, "(+", w, ")/", m>>]
       ELSE IF w < 20
       THEN [colour |-> "33", text |-> <<i, "(+", w, ")/", m>>]
       ELSE [colour |-> "31", text |-> <<i, "(+", w, ")/", m>>]
  ELSE [colour |-> "32", text |-> <<i, "/", m>>]

(***************************************************************************)
(* Bounds of the model, and the inputs the runs are started from.          *)
(***************************************************************************)
MaxParts == 3

MaxLines == 3

MaxMinute == 3

MaxConstraints == 2

MaxSeats == 10

MaxWait == 21

MaxCourses == 2

MaxPermCourses == 1

\* the sequences over S of length lo..hi
SeqsOf(S, lo, hi) == UNION { [1..n -> S] : n \in lo..hi }

RECURSIVE join(_, _)
join(parts, sep) ==
  IF Len(parts) = 1 THEN parts[1]
  ELSE parts[1] \o sep \o join(Tail(parts), sep)

Range(f) == { f[i] : i \in DOMAIN f }

\* rule strings: a leading character (or none), a day code and one or more
\* time tokens joined by "-"
LeadChars == { <<"+">>, <<"-">>, <<"x">>, <<>> }

DayCodes == { <<"M", "o">>, <<"T", "u">>, <<"M", "u">> }

TimeTokens == { <<"1", "0", ":", "3", "0">>, <<"1", "3", ":", "3", "0">>, <<"1", "0">>, <<>> }

RuleStrings ==
  { l \o d \o join(ts, <<"-">>) :
      l \in LeadChars, d \in DayCodes, ts \in SeqsOf(TimeTokens, 1, MaxParts) }

\* lines of a rules file as the file iterator yields them
FileLines ==
  { <<"-", "M", "o", "1", "0", ":", "3", "0", "-", "1", "3", ":", "3", "0", "\n">>,
    <<" ", " ", "+", "T", "u", "9", ":", "0", "0", "-", "1", "0", ":", "0", "0", " ", "\n">>,
    <<"\n">>,
    <<" ", " ", " ", "\n">>,
    <<"M", "o", "1", "0", ":", "3", "0", "-", "1", "3", ":", "3", "0", "\n">>,
    <<"-", "M", "o", "1", "0", ":", "3", "0", "\n">>,
    <<"-", "F", "r", "1", "3", ":", "3", "0", "-", "1", "0", ":", "3", "0">> }

Extras == { None, <<"+", "T", "u", "9", ":", "0", "0", "-", "1", "0", ":", "0", "0">>, <<"-", "M", "u", "1", "0", ":", "3", "0", "-", "1", "3", ":", "3", "0">>, <<" ">> }

DayStrings == { <<>>, <<"M", "o">>, <<"M", "o", "W", "e">>, <<"T", "u", "T", "h">>, <<"o", "M">> }

\* the meetings of the offerings: with both times or with neither
MeetA == Schedule("Burnaby", <<"M", "o", "W", "e">>, <<"1", "0", ":", "0", "0">>, <<"1", "1", ":", "0", "0">>)

MeetB == Schedule("Surrey", <<"T", "u">>, None, None)

MeetC == Schedule("Vancouver", <<"M", "o">>, <<"8", ":", "0", "0">>, <<"1", "0", ":", "0", "0">>)

Meetings == { MeetA, MeetB, MeetC }

\* no schedule, one meeting, or two different meetings in either order
Schedules ==
  {None} \cup { <<p>> : p \in Meetings }
         \cup { pq \in Meetings \X Meetings : pq[1] # pq[2] }

Outlines == { Outline(n, sc) : n \in {"120", "100"}, sc \in Schedules }

\* the rules given on the command line: [schedule, extra]
RulesFree == [schedule |-> << <<"-", "M", "o", "1", "0", ":", "0", "0", "-", "1", "3", ":", "3", "0", "\n">>, <<"\n">> >>, extra |-> None]

RulesBusy == [schedule |-> None, extra |-> <<"+", "M", "o", "1", "0", ":", "3", "0", "-", "1", "1", ":", "3", "0">>]

RulesNone == [schedule |-> None, extra |-> None]

GoodRules == { RulesFree, RulesBusy, RulesNone }

Campuses == { "Burnaby", "any" }

Days == { None, <<"M", "o">> }

Depts == { "cmpt", "psyc", "math" }

ArgsOf(campus, day, rules) ==
  [campus |-> campus, day |-> day, schedule |-> rules.schedule,
   extra |-> rules.extra]

NoArgs == ArgsOf("Burnaby", None, RulesNone)

Pending == [ok |-> FALSE, val |-> None, err |-> "pending"]

(***************************************************************************)
(* Runs of the single functions: the input is drawn in the initial state   *)
(* and one action applies the function.                                    *)
(***************************************************************************)
Idle ==
  /\ args = NoArgs /\ dept = "none" /\ data = <<>> /\ cur = <<>>
  /\ applied = <<>>

\* constraint_from_str on one rule string
InitParse == Idle /\ pc = "parse" /\ inp \in RuleStrings /\ out = Pending

Parse ==
  /\ pc = "parse"
  /\ out' = constraint_from_str(inp)
  /\ pc' = "parsed"
  /\ UNCHANGED <<args, dept, data, cur, applied, inp>>

SpecParse == InitParse /\ [][Parse]_vars

\* TimeConstraints(args.schedule, args.extra)
InitBuild ==
  /\ pc = "build"
  /\ \E lines \in SeqsOf(FileLines, 0, MaxLines), extra \in Extras :
       args = ArgsOf("Burnaby", None, [schedule |-> lines, extra |-> extra])
  /\ dept = "none" /\ data = <<>> /\ cur = <<>> /\ applied = <<>>
  /\ inp = None /\ out = Pending

Build ==
  /\ pc = "build"
  /\ out' = TimeConstraints_init(args.schedule, args.extra)
  /\ pc' = "built"
  /\ UNCHANGED <<args, dept, data, cur, applied, inp>>

SpecBuild == InitBuild /\ [][Build]_vars

\* is_not_constrained on one constraint and one candidate window
InitConstraint ==
  /\ Idle /\ pc = "check" /\ out = Pending
  /\ \E days \in DayStrings, start, end \in 0..MaxMinute,
        pos \in BOOLEAN, day \in D, cs, ce \in 0..MaxMinute :
       inp = [days |-> days, start |-> start, end |-> end,
              constraint |-> Constraint(pos, day, cs, ce)]

Check ==
  /\ pc = "check"
  /\ out' = is_not_constrained(inp.days, inp.start, inp.end, inp.constraint)
  /\ pc' = "checked"
  /\ UNCHANGED <<args, dept, data, cur, applied, inp>>

SpecConstraint == InitConstraint /\ [][Check]_vars

\* satisfies_constraints on a list of constraints and one candidate window
SatPool ==
  { Constraint(pos, day, 1, 2) : pos \in BOOLEAN, day \in DayCodes \cap D }

InitSat ==
  /\ Idle /\ pc = "satisfy" /\ out = Pending
  /\ \E cs \in SeqsOf(SatPool, 0, MaxConstraints), days \in DayStrings,
        start, end \in 0..MaxMinute :
       inp = [constraints |-> cs, days |-> days, start |-> start, end |-> end]

Satisfy ==
  /\ pc = "satisfy"
  /\ out' = satisfies_constraints(inp.constraints, inp.days, inp.start, inp.end)
  /\ pc' = "satisfied"
  /\ UNCHANGED <<args, dept, data, cur, applied, inp>>

SpecSat == InitSat /\ [][Satisfy]_vars

\* seating_to_str on one seat triple with capacity >= enrolled
InitClassify ==
  /\ Idle /\ pc = "render" /\ out = Pending
  /\ \E m \in 0..MaxSeats, i \in 0..MaxSeats, w \in 0..MaxWait :
       i <= m /\ inp = [i |-> i, m |-> m, w |-> w]

Render ==
  /\ pc = "render"
  /\ out' = seating_to_str(inp.i, inp.m, inp.w)
  /\ pc' = "rendered"
  /\ UNCHANGED <<args, dept, data, cur, applied, inp>>

SpecClassify == InitClassify /\ [][Render]_vars

(***************************************************************************)
(* The loop body of __main__ for one department:                           *)
(*     courses = ftime(ft(fd(fc(fu(data))), dept))                         *)
(* data is the list get_dept_data returned, cur the value handed from one  *)
(* filter to the next, applied the filters called so far, pc the filter    *)
(* called next.  An exception ends the run with pc = "raised".             *)
(***************************************************************************)
Stages == { "fu", "fc", "fd", "ft", "ftime" }

\* the call of one filter on d with the arguments main gives it
Call(name, d) ==
  CASE name = "fu"    -> fu(d)
    [] name = "fc"    -> fc(d, args.campus)
    [] name = "fd"    -> fd(d, args.day)
    [] name = "ft"    -> ft(d, dept)
    [] name = "ftime" -> ftime(d, args.schedule, args.extra)

\* the state after a call that returned or raised r
After(r, name, succ) ==
  /\ applied' = Append(applied, name)
  /\ IF r.ok
     THEN cur' = r.val /\ pc' = succ /\ out' = out
     ELSE cur' = cur /\ pc' = "raised" /\ out' = r
  /\ UNCHANGED <<args, dept, data, inp>>

Step(name, succ) == After(Call(name, cur), name, succ)

Fu == pc = "fu" /\ Step("fu", "fc")

\* the composition with ft called on the output of fc and fd left out
Fc_then_ft == pc = "fc" /\ Step("fc", "ft")

Fc == pc = "fc" /\ Step("fc", "fd")

Fd == pc = "fd" /\ Step("fd", "ft")

Ft == pc = "ft" /\ Step("ft", "ftime")

Ftime == pc = "ftime" /\ Step("ftime", "done")

InitArgs(campuses, rules) ==
  /\ \E campus \in campuses, day \in Days, r \in rules :
       args = ArgsOf(campus, day, r)
  /\ dept \in Depts
  /\ applied = <<>> /\ inp = None /\ out = Pending

Init ==
  /\ InitArgs(Campuses, GoodRules)
  /\ data \in SeqsOf(Outlines, 0, MaxCourses)
  /\ cur = data
  /\ pc = "fu"

Next == Fu \/ Fc \/ Fd \/ Ft \/ Ftime

Spec == Init /\ [][Next]_vars

(***************************************************************************)
(* The same five filters called in an arbitrary order, each once: the      *)
(* filter called next is any one not called yet.  The runs are started    *)
(* with --campus any and a rules file that parses.                         *)
(***************************************************************************)
Permuted(name) ==
  /\ pc = "perm"
  /\ name \notin Range(applied)
  /\ Step(name, IF Len(applied) + 1 = Cardinality(Stages) THEN "done" ELSE "perm")

InitPerm ==
  /\ InitArgs({"any"}, {RulesFree})
  /\ data \in SeqsOf(Outlines, 0, MaxPermCourses)
  /\ cur = data
  /\ pc = "perm"

NextPerm == \E name \in Stages : Permuted(name)

SpecPerm == InitPerm /\ [][NextPerm]_vars

(***************************************************************************)
(* Properties.                                                             *)
(***************************************************************************)
\* the filters in the order main composes them
CodeOrder == <<"fu", "fc", "fd", "ft", "ftime">>

\* the order the specification lists them in
ListedOrder == <<"fu", "fc", "ft", "fd", "ftime">>

IsPrefix(a, b) == Len(a) <= Len(b) /\ a = SubSeq(b, 1, Len(a))

\* a can be obtained from b by deleting elements
RECURSIVE IsSubList(_, _)
IsSubList(a, b) ==
  IF a = <<>> THEN TRUE
  ELSE IF b = <<>> THEN FALSE
  ELSE IF Head(a) = Head(b) THEN IsSubList(Tail(a), Tail(b))
  ELSE IsSubList(a, Tail(b))

\* the filters named by order applied to d, first to last
RECURSIVE Chain(_, _)
Chain(order, d) ==
  IF order = <<>> THEN Ok(d)
  ELSE Then(Call(Head(order), d), LAMBDA v : Chain(Tail(order), v))

Pipeline(d) == Chain(CodeOrder, d)

\* the constraint set ftime builds from the command line
ActiveConstraints == TimeConstraints_init(args.schedule, args.extra).val

DayListed(days, day) ==
  \E k \in 1..(Len(days) - 1) : days[k] = day[1] /\ days[k + 1] = day[2]

----------------------------------------------------------------------------
\* C1: satisfies_constraints returns true exactly when is_not_constrained
\* holds for every constraint of the set; one violated constraint makes it
\* false and the empty set is satisfied by every candidate.
C1_SatisfiesIsConjunction ==
  pc = "satisfied" =>
    /\ out = (\A k \in 1..Len(inp.constraints) :
                is_not_constrained(inp.days, inp.start, inp.end,
                                   inp.constraints[k]))
    /\ (inp.constraints = <<>> => out = TRUE)
    /\ ((\E k \in 1..Len(inp.constraints) :
           ~is_not_constrained(inp.days, inp.start, inp.end,
                               inp.constraints[k])) => out = FALSE)

\* two constraints, the first kept and only the second violated: rejected
C1_Witness ==
  /\ pc = "satisfied"
  /\ Len(inp.constraints) = 2
  /\ is_not_constrained(inp.days, inp.start, inp.end, inp.constraints[1])
  /\ ~is_not_constrained(inp.days, inp.start, inp.end, inp.constraints[2])
  /\ out = FALSE

----------------------------------------------------------------------------
\* C2: is_not_constrained is true when the constraint's day code is not a
\* substring of the day string; otherwise it is (pos = overlap) with
\* overlap = start < c.end /\ end > c.start, so windows that only touch do
\* not overlap: a required-free constraint is then kept, a required-busy
\* one violated.
C2_NotViolated ==
  pc = "checked" =>
    LET c       == inp.constraint
        overlap == inp.start < c.end /\ inp.end > c.start
        touch   == inp.end = c.start \/ inp.start = c.end
    IN  /\ (~DayListed(inp.days, c.day) => out = TRUE)
        /\ (DayListed(inp.days, c.day) => out = (c.pos = overlap))
        /\ (DayListed(inp.days, c.day) /\ touch => out = ~c.pos)

\* a required-busy constraint on a listed day whose window starts where the
\* candidate ends: violated
C2_Witness ==
  /\ pc = "checked"
  /\ DayListed(inp.days, inp.constraint.day)
  /\ inp.constraint.pos
  /\ inp.start < inp.end /\ inp.end = inp.constraint.start
  /\ inp.constraint.start < inp.constraint.end
  /\ out = FALSE

----------------------------------------------------------------------------
\* C3: ftime keeps an offering exactly when every meeting of it that has a
\* recorded time satisfies the active constraint set; a meeting without a
\* time never rejects.
C3_Kept(x) ==
  \A k \in 1..Len(x.schedule) :
    x.schedule[k].startTime # None =>
      satisfies_constraints(ActiveConstraints, x.schedule[k].days,
                            t2m(x.schedule[k].startTime).val,
                            t2m(x.schedule[k].endTime).val)

C3_Timeless(x) ==
  \A k \in 1..Len(x.schedule) : x.schedule[k].startTime = None

C3_ConstraintSatisfaction ==
  [][pc = "ftime" =>
       /\ pc' = "done"
       /\ cur' = SelectSeq(cur, C3_Kept)
       /\ \A k \in 1..Len(cur) :
            C3_Timeless(cur[k]) => \E j \in 1..Len(cur') : cur'[j] = cur[k]]_vars

\* under a non-empty constraint set ftime has dropped an offering and kept
\* one whose meetings all lack times
C3_Witness ==
  /\ pc = "done"
  /\ ActiveConstraints # <<>>
  /\ Len(cur) < Len(Chain(<<"fu", "fc", "fd", "ft">>, data).val)
  /\ \E k \in 1..Len(cur) : C3_Timeless(cur[k])

----------------------------------------------------------------------------
\* C4 (as claimed): a leading "+" gives required-busy, a leading "-"
\* required-free, and a rule string that starts with any other character
\* fails and gives no constraint.
C4_InvalidPolarityFails ==
  pc = "parsed" =>
    /\ (inp[1] = "+" /\ out.ok => out.val.pos)
    /\ (inp[1] = "-" /\ out.ok => ~out.val.pos)
    /\ (inp[1] \notin {"+", "-"} => ~out.ok)

----------------------------------------------------------------------------
\* C5 (as claimed): when the text after the day code, split on "-", is not
\* exactly two non-empty parts, the parse fails and gives no constraint.
C5_TwoParts(s) ==
  LET parts == split(From(s, 3), "-")
  IN  Len(parts) = 2 /\ parts[1] # <<>> /\ parts[2] # <<>>

C5_MalformedRangeFails ==
  pc = "parsed" => (~C5_TwoParts(inp) => ~out.ok)

----------------------------------------------------------------------------
\* C6: building the constraint set is all-or-nothing: if a non-blank line
\* or the extra rule does not parse the exception leaves the constructor
\* and there is no set; otherwise the list has one constraint per non-blank
\* line, in file order, and the extra rule's constraint last.
C6_Rules ==
  LET stripped == [k \in 1..Len(args.schedule) |-> strip(args.schedule[k])]
      nonblank == SelectSeq(stripped, LAMBDA l : l # <<>>)
  IN  nonblank \o (IF args.extra # None THEN <<args.extra>> ELSE <<>>)

C6_AllOrNothing ==
  pc = "built" =>
    LET parsed == [k \in 1..Len(C6_Rules) |-> constraint_from_str(C6_Rules[k])]
        bad    == { k \in 1..Len(parsed) : ~parsed[k].ok }
    IN  /\ out.ok = (bad = {})
        /\ out.ok => out.val = [k \in 1..Len(parsed) |-> parsed[k].val]
        /\ ~out.ok => \E k \in bad :
                        /\ \A j \in bad : k <= j
                        /\ out = Raise(parsed[k].err)

\* a file with a blank line between two rules, and an extra rule: three
\* constraints, the extra one last
C6_Witness ==
  /\ pc = "built"
  /\ Len(args.schedule) = 3
  /\ strip(args.schedule[2]) = <<>>
  /\ args.extra # None
  /\ out.ok
  /\ Len(out.val) = 3
  /\ out.val[3] = constraint_from_str(args.extra).val
  /\ out.val[1] # out.val[2]

----------------------------------------------------------------------------
\* C7: for capacity >= enrolled >= 0 and waitlisted >= 0 the rendering is
\* green when waitlisted = 0, else green when 10 * enrolled < 9 * capacity,
\* else yellow when waitlisted < 20, else red.
C7_Tier(i, m, w) ==
  IF w = 0 THEN "32"
  ELSE IF 10 * i < 9 * m THEN "32"
  ELSE IF w < 20 THEN "33"
  ELSE "31"

C7_Classify ==
  pc = "rendered" => out.colour = C7_Tier(inp.i, inp.m, inp.w)

\* a full course with twenty on the waitlist is red
C7_Witness ==
  /\ pc = "rendered"
  /\ inp.w = 20 /\ inp.i = inp.m /\ inp.m > 0
  /\ out.colour = "31"

----------------------------------------------------------------------------
\* C8: every filter returns a sub-list of the list it is given, and the
\* pipeline applied to its own output returns that output.
C8_Idempotent ==
  [][/\ IsSubList(cur', cur)
     /\ (pc' = "done" => Pipeline(cur') = Ok(cur'))]_vars

\* the pipeline has dropped one offering of two and kept the other
C8_Witness ==
  /\ pc = "done"
  /\ Len(cur) = 1
  /\ Len(data) = 2

----------------------------------------------------------------------------
\* C9 (as claimed): the filters run in the order HasSchedule, CampusMatch,
\* AlreadyTaken, WeekdayMatch, ConstraintSatisfaction.
C9_ListedOrder == IsPrefix(applied, ListedOrder)

\* C9 (amended): the filters run in the order HasSchedule, CampusMatch,
\* WeekdayMatch, AlreadyTaken, ConstraintSatisfaction, each on the output
\* of the one before; no filter runs before HasSchedule.
C9_CodeOrder ==
  /\ IsPrefix(applied, CodeOrder)
  /\ pc # "raised"
  /\ Ok(cur) = Chain(applied, data)
  /\ (applied # <<>> => applied[1] = "fu")

\* all five have run, the weekday filter and the taken filter each dropped
\* an offering
C9_Witness ==
  /\ pc = "done"
  /\ applied = CodeOrder
  /\ Len(Chain(<<"fu", "fc", "fd">>, data).val)
       < Len(Chain(<<"fu", "fc">>, data).val)
  /\ Len(Chain(<<"fu", "fc", "fd", "ft">>, data).val)
       < Len(Chain(<<"fu", "fc", "fd">>, data).val)

----------------------------------------------------------------------------
\* C10 (as claimed): in whatever order the five filters are applied, the
\* run completes without an exception and ends with the list the code's
\* order gives, also when an offering has no schedule.
C10_AnyOrder ==
  /\ pc # "raised"
  /\ (pc = "done" => Ok(cur) = Pipeline(data))

C10_HasScheduleFirst ==
  \A k \in 1..Len(applied) :
    applied[k] \in {"fc", "fd", "ftime"} =>
      \E j \in 1..(k - 1) : applied[j] = "fu"

C10_AllScheduled == \A k \in 1..Len(data) : data[k].schedule # None

\* C10 (amended): when every offering has a schedule, or HasSchedule is
\* applied before CampusMatch, WeekdayMatch and ConstraintSatisfaction, the
\* run completes without an exception in any order of the five filters and
\* ends with the list the code's order gives.
C10_OrderFree ==
  (C10_AllScheduled \/ C10_HasScheduleFirst) =>
    /\ pc # "raised"
    /\ (pc = "done" => Ok(cur) = Pipeline(data))

\* an order that starts with AlreadyTaken and ends with CampusMatch, on a
\* list with an offering that has no schedule
C10_Witness ==
  /\ pc = "done"
  /\ applied[1] = "ft" /\ applied[2] = "fu" /\ applied[5] = "fc"
  /\ ~C10_AllScheduled

====
